---- MODULE Spec2Model ----
(***************************************************************************)
(* A state-machine model of RenderWindow (VSIM_Oblig_3/renderwindow.cpp):  *)
(* the constructor, exposeEvent/init, the render timer and its render()    *)
(* slot, calculateFramerate and keyPressEvent.                             *)
(***************************************************************************)
EXTENDS Integers, Sequences, FiniteSets, TLC

(***************************************************************************)
(* Bounds of the exploration.                                              *)
(***************************************************************************)
MaxExposes == 2
MaxTicks == 1
MaxKeys == 2
MaxMoves == 4
MaxFrames == 63
MaxFrameKeys == 1
MaxErrors == 2
MaxChecks == 2

(***************************************************************************)
(* Program constants.                                                      *)
(***************************************************************************)
NULL == "null"
NullObj == 0
FramePeriod == 30
RAND_MAX == 2147483647
mRainAmount == 2
RainHeight == 5
InitCamPos == [x |-> 0, y |-> 0, z |-> 0]

\* outcomes of rand(), a value in 0..RAND_MAX: the smallest one, and the
\* largest one whose remainder modulo 20 is 19
RandVals == {0, RAND_MAX - 8}

Keys == {"Escape", "W", "S", "A", "D", "Q", "E", "I", "Other"}

\* glGetError codes: the three the code explains, and one it does not
GL_INVALID_ENUM == 1280
GL_INVALID_VALUE == 1281
GL_INVALID_OPERATION == 1282
GL_OUT_OF_MEMORY == 1285
ErrorCodes == {GL_INVALID_ENUM, GL_INVALID_VALUE, GL_INVALID_OPERATION, GL_OUT_OF_MEMORY}

\* what the driver offers: the GL_KHR_debug extension (ext), and whether
\* QOpenGLDebugLogger::initialize succeeds (ok)
NoDebugDriver == [ext |-> FALSE, ok |-> FALSE]
AllDrivers == {NoDebugDriver, [ext |-> TRUE, ok |-> FALSE], [ext |-> TRUE, ok |-> TRUE]}

VARIABLES
    mContext,       \* NULL or "ctx": the QOpenGLContext pointer
    mMainWindow,    \* NULL or "win": the MainWindow pointer
    mInitialized,   \* set by init() after makeCurrent succeeded
    connections,    \* number of timeout() -> render() connections
    timerActive,    \* mRenderTimer has been started
    pending,        \* render() slot invocations still to run for the current timeout
    glReady,        \* initializeOpenGLFunctions() has succeeded
    mShaders,       \* map: shader name -> shader pointer (NULL or the name of its program)
    mCamera,        \* NULL or "cam"
    mMap,           \* map: object name -> object id (NullObj is nullptr)
    mBall,          \* object id or NullObj
    heap,           \* every VisualObject created with new, in allocation order
    mRainDrops,     \* sequence of object ids
    ActivateRain,
    CamPos,
    frameCount,     \* the static counter of calculateFramerate
    crashed,        \* the process died of an invalid access
    closed,         \* MainWindow::close() was called
    lastOp,         \* the handler that ran last
    callLog,        \* the calls issued by the handler that ran last, in order
    initCalls,      \* number of times init() was entered
    exposes,        \* number of exposeEvent notifications
    frames,         \* number of executions of render()
    statusShown,    \* the frames (by number) in which showMessage was called
    keyCount,       \* per key, the number of key-down events delivered
    mOpenGLDebugLogger, \* NULL or "logger"
    loggerStarted,  \* QOpenGLDebugLogger::initialize() succeeded
    glErrors,       \* the driver's pending error codes, oldest first
    checks          \* number of calls of checkForGLerrors

vars == <<mContext, mMainWindow, mInitialized, connections, timerActive, pending,
          glReady, mShaders, mCamera, mMap, mBall, heap, mRainDrops, ActivateRain,
          CamPos, frameCount, crashed, closed, lastOp, callLog, initCalls, exposes,
          frames, statusShown, keyCount, mOpenGLDebugLogger, loggerStarted, glErrors,
          checks>>

(***************************************************************************)
(* Helpers                                                                 *)
(***************************************************************************)
EmptyMap == [k \in {} |-> NULL]

Call(op, name, obj, vec) == [op |-> op, name |-> name, obj |-> obj, vec |-> vec]

RECURSIVE Concat(_)
Concat(ss) == IF ss = <<>> THEN <<>> ELSE Head(ss) \o Concat(Tail(ss))

RECURSIVE SumOver(_, _)
SumOver(f, S) == IF S = {} THEN 0
                 ELSE LET k == CHOOSE e \in S : TRUE IN f[k] + SumOver(f, S \ {k})

\* std::map::insert: the pair is inserted only if the key is not present
MapInsert(m, k, v) ==
    IF k \in DOMAIN m THEN m ELSE [j \in DOMAIN m \cup {k} |-> IF j = k THEN v ELSE m[j]]

\* std::map::operator[]: a missing key is inserted with a null value
MapIndex(m, k, null) == MapInsert(m, k, null)

\* std::map iterates in the order of its keys (std::less<std::string>)
SortedNames == <<"Ball", "HeightShader", "LightShader", "PlainShader", "Surface", "TextureShader">>

MapOrder(m) == SelectSeq(SortedNames, LAMBDA k : k \in DOMAIN m)

Alive == ~crashed /\ ~closed

(***************************************************************************)
(* Constructor, lines 22-41: the context may fail to be created, the main  *)
(* window pointer is whatever the caller passed; nothing else is set up.   *)
(***************************************************************************)
Init ==
    /\ mContext \in {NULL, "ctx"}
    /\ mMainWindow \in {NULL, "win"}
    /\ mInitialized = FALSE
    /\ connections = 0
    /\ timerActive = FALSE
    /\ pending = 0
    /\ glReady = FALSE
    /\ mShaders = EmptyMap
    /\ mCamera = NULL
    /\ mMap = EmptyMap
    /\ mBall = NullObj
    /\ heap = <<>>
    /\ mRainDrops = <<>>
    /\ ActivateRain = FALSE
    /\ CamPos = InitCamPos
    /\ frameCount = 0
    /\ crashed = FALSE
    /\ closed = FALSE
    /\ lastOp = "constructor"
    /\ callLog = <<>>
    /\ initCalls = 0
    /\ exposes = 0
    /\ frames = 0
    /\ statusShown = {}
    /\ keyCount = [k \in Keys |-> 0]
    /\ mOpenGLDebugLogger = NULL
    /\ loggerStarted = FALSE
    /\ glErrors = <<>>
    /\ checks = 0

(***************************************************************************)
(* Objects created with new                                                *)
(***************************************************************************)
NewSurfaceMesh(shader) ==
    [kind |-> "SurfaceMesh", shader |-> shader, surface |-> NullObj, physics |-> FALSE,
     position |-> <<0, 0, 0>>, inited |-> FALSE, origin |-> "init"]

NewRollingBall(shader, origin) ==
    [kind |-> "RollingBall", shader |-> shader, surface |-> NullObj, physics |-> FALSE,
     position |-> <<0, 0, 0>>, inited |-> FALSE, origin |-> origin]

(***************************************************************************)
(* RenderWindow::init, lines 51-132.  mc is the outcome of makeCurrent.    *)
(* The result is the state init() leaves behind and the calls it issued.   *)
(***************************************************************************)
\* lines 96-103
InitShaders(m) ==
    MapInsert(MapInsert(MapInsert(MapInsert(m,
        "PlainShader", "PlainShader"),
        "TextureShader", "TextureShader"),
        "LightShader", "LightShader"),
        "HeightShader", "HeightShader")

\* lines 126-130: init() and UpdateTransform() on every registered object
InitLoopCalls(m) ==
    Concat([i \in 1..Len(MapOrder(m)) |->
              LET k == MapOrder(m)[i] IN
              << Call("init", k, m[k], <<>>), Call("UpdateTransform", k, m[k], <<>>) >>])

InitLoopHeap(h, m) ==
    [i \in 1..Len(h) |->
        IF \E k \in DOMAIN m : m[k] = i THEN [h[i] EXCEPT !.inited = TRUE] ELSE h[i]]

WireBallToItself(h, m, ball) ==
    IF ball # NullObj THEN [h EXCEPT ![ball].surface = m["Ball"]] ELSE h

\* lines 120-123: mBall->SetSurface(mMap["Surface"]) when the cast gave a ball
WireBall(h, m, ball) ==
    IF ball # NullObj THEN [h EXCEPT ![ball].surface = m["Surface"]] ELSE h

\* RenderWindow::startOpenGLDebugger, lines 282-300: the logger object exists
\* as soon as the extension is there, whether or not initialize() succeeds
startOpenGLDebugger(driver) ==
    IF mContext # NULL /\ driver.ext
    THEN [logger |-> "logger", started |-> driver.ok]
    ELSE [logger |-> mOpenGLDebugLogger, started |-> loggerStarted]

init(mc, driver) ==
    IF ~mc
    THEN \* lines 64-67: makeCurrent failed, init() returns
         [mInitialized |-> mInitialized, glReady |-> glReady, mShaders |-> mShaders,
          mCamera |-> mCamera, mMap |-> mMap, mBall |-> mBall, heap |-> heap,
          logger |-> mOpenGLDebugLogger, started |-> loggerStarted,
          calls |-> << Call("connect", "render", NullObj, <<>>),
                       Call("makeCurrent", "failed", NullObj, <<>>) >>]
    ELSE LET sh    == InitShaders(mShaders)
             plain == MapIndex(sh, "PlainShader", NULL)["PlainShader"]
             h1    == Append(heap, NewSurfaceMesh(plain))
             m1    == MapInsert(mMap, "Surface", Len(h1))
             h2    == Append(h1, NewRollingBall(plain, "init"))
             m2    == MapInsert(m1, "Ball", Len(h2))
             \* line 118: dynamic_cast<RollingBall*>(mMap["Ball"])
             ball  == IF m2["Ball"] # NullObj /\ h2[m2["Ball"]].kind = "RollingBall"
                      THEN m2["Ball"] ELSE NullObj
             h3    == WireBall(h2, MapIndex(m2, "Surface", NullObj), ball)
         IN [mInitialized |-> TRUE, glReady |-> TRUE, mShaders |-> sh,
             mCamera |-> "cam", mMap |-> m2, mBall |-> ball,
             logger |-> startOpenGLDebugger(driver).logger,
             started |-> startOpenGLDebugger(driver).started,
             heap |-> InitLoopHeap(h3, m2),
             calls |-> << Call("connect", "render", NullObj, <<>>),
                          Call("makeCurrent", "ok", NullObj, <<>>) >>
                       \o (IF ball # NullObj
                           THEN << Call("SetSurface", "Ball", m2["Surface"], <<>>) >>
                           ELSE <<>>)
                       \o InitLoopCalls(m2)]

(***************************************************************************)
(* RenderWindow::exposeEvent, lines 192-213.  mc is the outcome of         *)
(* makeCurrent in init(), exposed the value of isExposed().                *)
(* Invalid accesses: mContext->makeCurrent on a null context (line 64), a  *)
(* null object in the init loop (line 128), glViewport before              *)
(* initializeOpenGLFunctions (line 202).  Each either kills the process or *)
(* is survived; which one is not decided by the program.                   *)
(***************************************************************************)
exposeEvent(mc, exposed, survive, driver) ==
    /\ Alive /\ pending = 0
    /\ LET needInit == ~mInitialized
           ubCtx    == needInit /\ mContext = NULL
           mcEff    == IF ubCtx /\ ~survive THEN FALSE ELSE mc
           r        == IF needInit THEN init(mcEff, driver)
                       ELSE [mInitialized |-> mInitialized, glReady |-> glReady,
                             mShaders |-> mShaders, mCamera |-> mCamera, mMap |-> mMap,
                             mBall |-> mBall, heap |-> heap,
                             logger |-> mOpenGLDebugLogger, started |-> loggerStarted,
                             calls |-> <<>>]
           ubLoop   == needInit /\ mcEff /\ \E k \in DOMAIN r.mMap : r.mMap[k] = NullObj
           ubGL     == ~r.glReady
           ub       == ubCtx \/ ubLoop \/ ubGL
       IN /\ (~ub => survive)
          /\ mInitialized' = r.mInitialized
          /\ glReady' = r.glReady
          /\ mShaders' = r.mShaders
          /\ mCamera' = r.mCamera
          /\ mMap' = r.mMap
          /\ mBall' = r.mBall
          /\ heap' = r.heap
          /\ mOpenGLDebugLogger' = r.logger
          /\ loggerStarted' = r.started
          /\ connections' = IF needInit THEN connections + 1 ELSE connections
          /\ initCalls' = IF needInit THEN initCalls + 1 ELSE initCalls
          /\ crashed' = ~survive
          /\ timerActive' = (timerActive \/ (survive /\ exposed))
          /\ callLog' = r.calls
                        \o (IF survive \/ (~ubCtx /\ ~ubLoop)
                            THEN << Call("glViewport", "", NullObj, <<>>) >> ELSE <<>>)
                        \o (IF survive /\ exposed
                            THEN << Call("timerStart", "", NullObj, <<>>) >> ELSE <<>>)
    /\ exposes' = exposes + 1
    /\ lastOp' = "exposeEvent"
    /\ UNCHANGED <<mContext, mMainWindow, pending, mRainDrops, ActivateRain, CamPos,
                   frameCount, closed, frames, statusShown, keyCount, glErrors, checks>>

ExposeOn(drivers) ==
    \E mc \in BOOLEAN, exposed \in BOOLEAN, survive \in BOOLEAN, driver \in drivers :
        exposeEvent(mc, exposed, survive, driver)

ExposeEvent == ExposeOn({NoDebugDriver})

(***************************************************************************)
(* QTimer timeout: the signal invokes the render() slot once for every     *)
(* connection made at line 59, one after the other, before any other event *)
(* is handled.                                                             *)
(***************************************************************************)
Timeout ==
    /\ Alive /\ timerActive /\ pending = 0
    /\ pending' = connections
    /\ UNCHANGED <<mContext, mMainWindow, mInitialized, connections, timerActive,
                   glReady, mShaders, mCamera, mMap, mBall, heap, mRainDrops,
                   ActivateRain, CamPos, frameCount, crashed, closed, lastOp, callLog,
                   initCalls, exposes, frames, statusShown, keyCount,
                   mOpenGLDebugLogger, loggerStarted, glErrors, checks>>

(***************************************************************************)
(* RenderWindow::calculateFramerate, lines 219-236: the new value of the   *)
(* static counter and whether showMessage was called.                      *)
(***************************************************************************)
calculateFramerate(fc) ==
    IF mMainWindow # NULL
    THEN IF fc + 1 > FramePeriod
         THEN [frameCount |-> 0, shown |-> TRUE]
         ELSE [frameCount |-> fc + 1, shown |-> FALSE]
    ELSE [frameCount |-> fc, shown |-> FALSE]

(***************************************************************************)
(* RenderWindow::render, lines 135-187                                     *)
(***************************************************************************)
\* lines 153-165
ShaderCalls ==
    Concat([i \in 1..Len(MapOrder(mShaders)) |->
              LET k == MapOrder(mShaders)[i] IN
              << Call("use", k, NullObj, <<>>),
                 Call("vMatrix", k, NullObj, <<>>),
                 Call("pMatrix", k, NullObj, <<>>) >>
              \o (IF k = "LightShader"
                  THEN << Call("cameraPosition", k, NullObj, <<CamPos.x, CamPos.y, CamPos.y>>) >>
                  ELSE <<>>)])

RainCallsSkippedOnStatusFrame ==
    IF ActivateRain /\ frameCount # FramePeriod
    THEN Concat([i \in 1..Len(mRainDrops) |->
                   << Call("AddLife", "rain", mRainDrops[i], <<>>),
                      Call("UpdateTransform", "rain", mRainDrops[i], <<>>),
                      Call("draw", "rain", mRainDrops[i], <<>>) >>])
    ELSE <<>>

\* lines 168-175
RainCalls ==
    IF ActivateRain
    THEN Concat([i \in 1..Len(mRainDrops) |->
                   << Call("AddLife", "rain", mRainDrops[i], <<>>),
                      Call("UpdateTransform", "rain", mRainDrops[i], <<>>),
                      Call("draw", "rain", mRainDrops[i], <<>>) >>])
    ELSE <<>>

SceneCallsDrawFirst(m) ==
    Concat([i \in 1..Len(MapOrder(m)) |->
              LET k == MapOrder(m)[i] IN
              << Call("draw", k, m[k], <<>>), Call("UpdateTransform", k, m[k], <<>>) >>])

\* lines 177-181
SceneCalls(m) ==
    Concat([i \in 1..Len(MapOrder(m)) |->
              LET k == MapOrder(m)[i] IN
              << Call("UpdateTransform", k, m[k], <<>>), Call("draw", k, m[k], <<>>) >>])

\* lines 139-186; the outcome of makeCurrent is not looked at
RenderCalls(mc, m) ==
    << Call("makeCurrent", IF mc THEN "ok" ELSE "failed", NullObj, <<>>),
       Call("glClear", "", NullObj, <<>>),
       Call("lookAt", "Ball", m["Ball"], <<CamPos.x, CamPos.y, CamPos.z>>) >>
    \o ShaderCalls \o RainCalls \o SceneCalls(m)
    \o << Call("swapBuffers", "", NullObj, <<>>) >>

\* Invalid accesses: a null context (139), GL calls before
\* initializeOpenGLFunctions succeeded (143), a null camera (145), a null
\* "Ball" entry (148), a null shader (154).
render(mc, survive) ==
    /\ Alive /\ pending > 0
    /\ LET fr      == calculateFramerate(frameCount)
           ready   == glReady \/ (mc /\ mContext # NULL)
           m1      == MapIndex(mMap, "Ball", NullObj)
           ub      == \/ mContext = NULL
                      \/ ~ready
                      \/ mCamera = NULL
                      \/ m1["Ball"] = NullObj
                      \/ \E k \in DOMAIN mShaders : mShaders[k] = NULL
       IN /\ (~ub => survive)
          /\ frameCount' = fr.frameCount
          /\ statusShown' = IF fr.shown THEN statusShown \cup {frames + 1} ELSE statusShown
          /\ frames' = frames + 1
          /\ crashed' = ~survive
          /\ IF survive
             THEN /\ glReady' = ready
                  /\ mMap' = m1
                  /\ callLog' = RenderCalls(mc, m1)
                  /\ pending' = pending - 1
             ELSE /\ callLog' = <<>>
                  /\ UNCHANGED <<glReady, mMap, pending>>
    /\ lastOp' = "render"
    /\ UNCHANGED <<mContext, mMainWindow, mInitialized, connections, timerActive,
                   mShaders, mCamera, mBall, heap, mRainDrops, ActivateRain, CamPos,
                   closed, initCalls, exposes, keyCount,
                   mOpenGLDebugLogger, loggerStarted, glErrors, checks>>

Render == \E mc \in BOOLEAN, survive \in BOOLEAN : render(mc, survive)

(***************************************************************************)
(* RenderWindow::keyPressEvent, lines 304-383                              *)
(***************************************************************************)
MoveCameraBackIsForward(pos, key) ==
    CASE key = "W" -> [pos EXCEPT !.z = pos.z + 1]
      [] key = "S" -> [pos EXCEPT !.z = pos.z + 1]
      [] key = "A" -> [pos EXCEPT !.x = pos.x - 1]
      [] key = "D" -> [pos EXCEPT !.x = pos.x + 1]
      [] key = "Q" -> [pos EXCEPT !.y = pos.y - 1]
      [] key = "E" -> [pos EXCEPT !.y = pos.y + 1]
      [] OTHER -> pos

MoveCameraStrafeAlsoSinks(pos, key) ==
    CASE key = "W" -> [pos EXCEPT !.z = pos.z + 1]
      [] key = "S" -> [pos EXCEPT !.z = pos.z - 1]
      [] key = "A" -> [pos EXCEPT !.x = pos.x - 1, !.y = pos.y - 1]
      [] key = "D" -> [pos EXCEPT !.x = pos.x + 1]
      [] key = "Q" -> [pos EXCEPT !.y = pos.y - 1]
      [] key = "E" -> [pos EXCEPT !.y = pos.y + 1]
      [] OTHER -> pos

\* lines 312-342
MoveCamera(pos, key) ==
    CASE key = "W" -> [pos EXCEPT !.z = pos.z + 1]
      [] key = "S" -> [pos EXCEPT !.z = pos.z - 1]
      [] key = "A" -> [pos EXCEPT !.x = pos.x - 1]
      [] key = "D" -> [pos EXCEPT !.x = pos.x + 1]
      [] key = "Q" -> [pos EXCEPT !.y = pos.y - 1]
      [] key = "E" -> [pos EXCEPT !.y = pos.y + 1]
      [] OTHER -> pos

RainSpawnWide(r1, r2) == << -10 + (r1 % 40), RainHeight, -10 + (r2 % 40) >>

\* line 356: QVector3D RainSpawn(-10 + rand() % 20, 5, -10 + rand() % 20)
RainSpawn(r1, r2) == << -10 + (r1 % 20), RainHeight, -10 + (r2 % 20) >>

\* lines 357-367: one ball of the spawn loop
SpawnBall(shader, pos) ==
    [NewRollingBall(shader, "rain") EXCEPT !.inited = TRUE, !.position = pos, !.physics = TRUE]

\* lines 354-370: the balls created by the loop, in order; rnd are the results of rand()
SpawnedBalls(shader, rnd) ==
    [i \in 1..mRainAmount |-> SpawnBall(shader, RainSpawn(rnd[2 * i - 1], rnd[2 * i]))]

ClearRainKeepsDrops(drops) == drops

\* line 350
ClearRain(drops) == <<>>

SpawnCalls(shader, rnd, first) ==
    Concat([i \in 1..mRainAmount |->
              << Call("new RollingBall", shader, first + i, <<>>),
                 Call("init", "rain", first + i, <<>>),
                 Call("SetPosition", "rain", first + i, RainSpawn(rnd[2 * i - 1], rnd[2 * i])),
                 Call("EnablePhysics", "rain", first + i, <<>>),
                 Call("push_back", "rain", first + i, <<>>) >>])

RandInputs(key) ==
    IF key = "I" /\ ~ActivateRain THEN [1..(2 * mRainAmount) -> RandVals] ELSE {<<>>}

\* Invalid access: mMainWindow->close() on a null main window (line 308)
keyPressEvent(key, rnd, survive) ==
    /\ Alive /\ pending = 0
    /\ LET ub == key = "Escape" /\ mMainWindow = NULL
       IN /\ (~ub => survive)
          /\ crashed' = ~survive
          /\ closed' = (key = "Escape" /\ ~ub)
          /\ IF ~survive
             THEN /\ callLog' = <<>>
                  /\ UNCHANGED <<CamPos, ActivateRain, mRainDrops, heap, mShaders>>
             ELSE /\ CamPos' = MoveCamera(CamPos, key)
                  /\ IF key = "I"
                     THEN IF ActivateRain
                          THEN /\ ActivateRain' = FALSE
                               /\ mRainDrops' = ClearRain(mRainDrops)
                               /\ callLog' = << Call("clear", "rain", NullObj, <<>>) >>
                               /\ UNCHANGED <<heap, mShaders>>
                          ELSE LET sh     == IF mRainAmount > 0
                                             THEN MapIndex(mShaders, "PlainShader", NULL)
                                             ELSE mShaders
                                   shader == IF mRainAmount > 0 THEN sh["PlainShader"] ELSE NULL
                               IN /\ mShaders' = sh
                                  /\ heap' = heap \o SpawnedBalls(shader, rnd)
                                  /\ mRainDrops' = mRainDrops \o
                                         [i \in 1..mRainAmount |-> Len(heap) + i]
                                  /\ ActivateRain' = TRUE
                                  /\ callLog' = SpawnCalls(shader, rnd, Len(heap))
                     ELSE /\ callLog' = IF key = "Escape"
                                        THEN << Call("close", "", NullObj, <<>>) >>
                                        ELSE <<>>
                          /\ UNCHANGED <<ActivateRain, mRainDrops, heap, mShaders>>
    /\ keyCount' = [keyCount EXCEPT ![key] = @ + 1]
    /\ lastOp' = "keyPressEvent"
    /\ UNCHANGED <<mContext, mMainWindow, mInitialized, connections, timerActive, pending,
                   glReady, mCamera, mMap, mBall, frameCount, initCalls, exposes, frames,
                   statusShown, mOpenGLDebugLogger, loggerStarted, glErrors, checks>>

KeyPressIn(K) == \E key \in K : \E rnd \in RandInputs(key) : \E survive \in BOOLEAN :
                     keyPressEvent(key, rnd, survive)

KeysPressed == SumOver(keyCount, Keys)

(***************************************************************************)
(* RenderWindow::checkForGLerrors, lines 240-278                           *)
(***************************************************************************)
\* lines 259-275: what is logged for one error code
ErrorLog(err) ==
    << Call("logText", "glGetError returns", err, <<>>) >>
    \o (CASE err = 1280 -> << Call("logText", "GL_INVALID_ENUM", err, <<>>) >>
          [] err = 1281 -> << Call("logText", "GL_INVALID_VALUE", err, <<>>) >>
          [] err = 1282 -> << Call("logText", "GL_INVALID_OPERATION", err, <<>>) >>
          [] OTHER -> <<>>)

\* lines 256-276: glGetError is polled until it returns GL_NO_ERROR, which it
\* does when no error is pending
RECURSIVE PollLog(_)
PollLog(queue) ==
    IF queue = <<>> THEN <<>> ELSE ErrorLog(Head(queue)) \o PollLog(Tail(queue))

\* lines 244-252: every logged message that is not of OtherType is logged
MessageLog(msgs) ==
    Concat([i \in 1..Len(msgs) |->
              IF msgs[i] # "OtherType"
              THEN << Call("logText", msgs[i], NullObj, <<>>) >> ELSE <<>>])

MessageTypes == {"ErrorType", "OtherType"}

\* QOpenGLDebugLogger::loggedMessages(): nothing unless the logger was initialized
LoggedMessages ==
    IF mOpenGLDebugLogger # NULL /\ loggerStarted
    THEN {<<>>} \cup {<<a>> : a \in MessageTypes}
                \cup {<<a, b>> : a \in MessageTypes, b \in MessageTypes}
    ELSE {<<>>}

\* Invalid accesses: mLogger is null until init() was entered (line 55),
\* glGetError needs initializeOpenGLFunctions to have succeeded.
checkForGLerrors(msgs, survive) ==
    /\ Alive /\ pending = 0
    /\ LET polling == mOpenGLDebugLogger = NULL
           log     == IF polling THEN PollLog(glErrors) ELSE MessageLog(msgs)
           ub      == (polling /\ ~glReady) \/ (log # <<>> /\ initCalls = 0)
       IN /\ (~ub => survive)
          /\ crashed' = ~survive
          /\ IF survive
             THEN /\ callLog' = log
                  /\ glErrors' = IF polling THEN <<>> ELSE glErrors
             ELSE /\ callLog' = <<>>
                  /\ UNCHANGED glErrors
    /\ checks' = checks + 1
    /\ lastOp' = "checkForGLerrors"
    /\ UNCHANGED <<mContext, mMainWindow, mInitialized, connections, timerActive, pending,
                   glReady, mShaders, mCamera, mMap, mBall, heap, mRainDrops, ActivateRain,
                   CamPos, frameCount, closed, initCalls, exposes, frames, statusShown,
                   keyCount, mOpenGLDebugLogger, loggerStarted>>

CheckForGLerrors == \E msgs \in LoggedMessages : \E survive \in BOOLEAN :
                        checkForGLerrors(msgs, survive)

\* the driver records an error of a GL call
DriverError ==
    /\ Alive /\ pending = 0
    /\ \E err \in ErrorCodes : glErrors' = Append(glErrors, err)
    /\ UNCHANGED <<mContext, mMainWindow, mInitialized, connections, timerActive, pending,
                   glReady, mShaders, mCamera, mMap, mBall, heap, mRainDrops, ActivateRain,
                   CamPos, frameCount, crashed, closed, lastOp, callLog, initCalls, exposes,
                   frames, statusShown, keyCount, mOpenGLDebugLogger, loggerStarted, checks>>

(***************************************************************************)
(* Specifications                                                          *)
(***************************************************************************)
\* the whole window: a few exposes, timer ticks and key events
LifeKeys == {"I", "W", "Escape"}

Expose == exposes < MaxExposes /\ ExposeEvent

Tick == frames < MaxTicks /\ Timeout

KeyPressEvent == KeysPressed < MaxKeys /\ KeyPressIn(LifeKeys)

Next == Expose \/ Tick \/ Render \/ KeyPressEvent

Spec == Init /\ [][Next]_vars

\* the keyboard alone: longer sequences of key events over all the keys
KeySequence == KeysPressed < MaxMoves /\ KeyPressIn(Keys \ {"I"})

NextKeys == KeySequence

SpecKeys == Init /\ [][NextKeys]_vars

\* the render loop: one expose, a long run of timer ticks and a few key events
FirstExpose == exposes < 1 /\ ExposeEvent

FrameTick == frames < MaxFrames /\ Timeout

FrameKey == KeysPressed < MaxFrameKeys /\ KeyPressIn({"I", "W"})

NextFrames == FirstExpose \/ FrameTick \/ Render \/ FrameKey

SpecFrames == Init /\ [][NextFrames]_vars

\* the keyboard with every key, the toggle included, around one expose
InputKey == KeysPressed < MaxKeys /\ KeyPressIn(Keys)

NextInput == FirstExpose \/ InputKey

SpecInput == Init /\ [][NextInput]_vars

\* diagnostics: exposes on every kind of driver, driver errors and error checks
DiagExpose == exposes < MaxExposes /\ ExposeOn(AllDrivers)

DiagError == Len(glErrors) < MaxErrors /\ DriverError

DiagCheck == checks < MaxChecks /\ CheckForGLerrors

NextDiag == DiagExpose \/ DiagError \/ DiagCheck

SpecDiag == Init /\ [][NextDiag]_vars

(***************************************************************************)
(* Properties                                                              *)
(***************************************************************************)
HasCallNamed(op, name) ==
    \E i \in 1..Len(callLog) : callLog[i].op = op /\ callLog[i].name = name

FrameOps == {"glClear", "use", "vMatrix", "pMatrix", "cameraPosition", "AddLife",
             "UpdateTransform", "draw", "swapBuffers"}

RenderRan == lastOp = "render"

\* C1: no frame is rendered unless setup succeeded: the render timer is
\* started, and render() executes, only when init() has completed (context
\* made current, shaders, camera and scene objects created).
C1_NoFrameWithoutSetup ==
    /\ timerActive => mInitialized
    /\ RenderRan => (mInitialized /\ mCamera # NULL /\ mShaders # EmptyMap)

\* C2: whatever the outcome of makeCurrent, init() is entered exactly once,
\* on the first exposeEvent; later exposeEvents do not enter it again.
C2_InitEnteredOnce == initCalls = (IF exposes > 0 THEN 1 ELSE 0)

\* C3: in a render() tick whose makeCurrent fails the frame is abandoned: no
\* clear, no uniform push, no UpdateTransform, no draw and no swapBuffers is
\* issued in that tick; the timer keeps running.
C3_FrameAbandonedWithoutContext ==
    (RenderRan /\ HasCallNamed("makeCurrent", "failed"))
        => ((\A i \in 1..Len(callLog) : callLog[i].op \notin FrameOps) /\ timerActive)

RainSized == Len(mRainDrops) = (IF ActivateRain THEN mRainAmount ELSE 0)

ToggleKeyStep == keyCount'["I"] # keyCount["I"]

\* C4: mRainDrops has exactly mRainAmount elements whenever ActivateRain is
\* true and none whenever it is false, in the initial state and after every
\* step; each toggle-rain key event flips ActivateRain.
C4_RainSizeFollowsFlag ==
    RainSized /\ [][RainSized' /\ (ToggleKeyStep => ActivateRain' = ~ActivateRain)]_vars

C4_Witness == ActivateRain /\ Len(mRainDrops) = mRainAmount /\ RenderRan /\ ~crashed

RainOnStep == ~ActivateRain /\ ActivateRain'

DropPosition(i) == heap[mRainDrops[i]].position

SpawnInBounds ==
    \A i \in 1..Len(mRainDrops) :
        /\ DropPosition(i)[2] = 5
        /\ DropPosition(i)[1] \in -10..9
        /\ DropPosition(i)[3] \in -10..9

SpawnDistinct ==
    \A i, j \in 1..Len(mRainDrops) : i # j => DropPosition(i) # DropPosition(j)

\* C5 as stated: on every Inactive -> Active toggle every spawned ball has
\* y = 5, x and z in -10..9, and the positions of the balls spawned by that
\* toggle are pairwise distinct.
C5_SpawnInBoundsAndDistinct == [][RainOnStep => (SpawnInBounds' /\ SpawnDistinct')]_vars

\* C5 as amended: on every Inactive -> Active toggle every spawned ball has
\* y = 5 and x and z in -10..9, for every outcome of rand(); two balls of one
\* toggle may get the same position.
C5_SpawnInBounds ==
    [][RainOnStep => (Len(mRainDrops') = mRainAmount /\ SpawnInBounds')]_vars

C5_Witness ==
    /\ ActivateRain /\ lastOp = "keyPressEvent"
    /\ \E i, j \in 1..Len(mRainDrops) :
          /\ i # j
          /\ DropPosition(i) = <<-10, 5, 9>>
          /\ DropPosition(j) = <<9, 5, -10>>

TransientAllocated == {i \in 1..Len(heap) : heap[i].origin = "rain"}

\* C6: the transient balls that were created and not released are exactly
\* the objects in mRainDrops; after a toggle to Inactive none remains
\* allocated.  (No handler deletes an object, so every ball created by the
\* spawn loop is still allocated.)
C6_TransientsReleased ==
    TransientAllocated = {mRainDrops[i] : i \in 1..Len(mRainDrops)}

\* C7: after any sequence of movement key-down events CamPos is the initial
\* position plus the per-key unit steps (W: z+1, S: z-1, A: x-1, D: x+1,
\* Q: y-1, E: y+1) summed over the events, whatever their order.
C7_CameraIsSumOfSteps ==
    /\ CamPos.x = InitCamPos.x + keyCount["D"] - keyCount["A"]
    /\ CamPos.y = InitCamPos.y + keyCount["E"] - keyCount["Q"]
    /\ CamPos.z = InitCamPos.z + keyCount["W"] - keyCount["S"]

C7_Witness ==
    /\ keyCount["W"] = 1 /\ keyCount["S"] = 2 /\ keyCount["Q"] = 1
    /\ CamPos = [x |-> 0, y |-> -1, z |-> -1]

\* C8: with a main window present the status message is shown on exactly the
\* 30th, 60th, 90th, ... rendered frame, and the counter is 0 after each.
C8_StatusEveryThirtyFrames ==
    mMainWindow # NULL =>
        /\ statusShown = {n \in 1..frames : n % 30 = 0}
        /\ (frames \in statusShown => frameCount = 0)

DrawOps == {"UpdateTransform", "draw"}

DrawCallsOf(log) == SelectSeq(log, LAMBDA c : c.op \in DrawOps)

RECURSIVE ExpectedDraws(_, _)
ExpectedDraws(names, objs) ==
    IF names = <<>> THEN <<>>
    ELSE << Call("UpdateTransform", Head(names), Head(objs), <<>>),
            Call("draw", Head(names), Head(objs), <<>>) >>
         \o ExpectedDraws(Tail(names), Tail(objs))

ExpectedFrameDraws(rain, drops, m) ==
    ExpectedDraws([i \in 1..(IF rain THEN Len(drops) ELSE 0) |-> "rain"],
                  [i \in 1..(IF rain THEN Len(drops) ELSE 0) |-> drops[i]])
    \o ExpectedDraws(MapOrder(m), [i \in 1..Len(MapOrder(m)) |-> m[MapOrder(m)[i]]])

RenderStep == frames' = frames + 1

\* C9: frame-rate sampling is a pure observer: a render() tick, whatever the
\* value of the frame counter and whether or not the status message is shown
\* in it, leaves CamPos, ActivateRain, mRainDrops, the objects, the shader
\* registry and (once initialized) the scene registry unchanged, and the
\* update/draw calls it issues are determined by the rain flag, the transient
\* sequence and the scene registry alone.
C9_SamplingIsPureObserver ==
    [][RenderStep =>
          /\ UNCHANGED <<CamPos, ActivateRain, mRainDrops, heap, mShaders>>
          /\ (mInitialized => UNCHANGED mMap)
          /\ (~crashed' =>
                DrawCallsOf(callLog') = ExpectedFrameDraws(ActivateRain, mRainDrops, mMap'))]_vars

C9_Witness ==
    /\ RenderRan /\ ~crashed /\ mInitialized /\ ActivateRain
    /\ frames \in statusShown /\ frameCount = 0
    /\ Len(DrawCallsOf(callLog)) = 2 * mRainAmount + 4

SceneOps == {"init", "UpdateTransform", "draw"}

\* C10: the init loop of init() and the draw loop of render() visit the
\* registered objects in insertion order: every call on "Surface" precedes
\* the same call on "Ball".
C10_SurfaceBeforeBall ==
    \A i, j \in 1..Len(callLog) :
        (/\ callLog[i].op \in SceneOps
         /\ callLog[i].op = callLog[j].op
         /\ callLog[i].name = "Surface"
         /\ callLog[j].name = "Ball") => i < j

ShaderRoles == {"PlainShader", "TextureShader", "LightShader", "HeightShader"}

\* C11: the key set of mShaders is either empty (init() has not populated it)
\* or exactly the four roles, each mapped to a non-null program; no render()
\* tick and no key event inserts or removes a key.
C11_ShaderKeysFixed ==
    \/ DOMAIN mShaders = {}
    \/ (DOMAIN mShaders = ShaderRoles /\ \A k \in ShaderRoles : mShaders[k] # NULL)

\* C12: no object held in mRainDrops is a value of mMap, and once init() has
\* run the key set of mMap is exactly {"Surface", "Ball"} with non-null
\* values, whatever render ticks, key events and rain toggles follow.
C12_TransientsOutsideRegistry ==
    /\ \A i \in 1..Len(mRainDrops) : \A k \in DOMAIN mMap : mMap[k] # mRainDrops[i]
    /\ mInitialized =>
          (DOMAIN mMap = {"Surface", "Ball"} /\ \A k \in DOMAIN mMap : mMap[k] # NullObj)

RECURSIVE ExpectedPollLog(_)
ExpectedPollLog(queue) ==
    IF queue = <<>> THEN <<>>
    ELSE LET err == Head(queue) IN
         << Call("logText", "glGetError returns", err, <<>>) >>
         \o (IF err = GL_INVALID_ENUM
             THEN << Call("logText", "GL_INVALID_ENUM", err, <<>>) >> ELSE <<>>)
         \o (IF err = GL_INVALID_VALUE
             THEN << Call("logText", "GL_INVALID_VALUE", err, <<>>) >> ELSE <<>>)
         \o (IF err = GL_INVALID_OPERATION
             THEN << Call("logText", "GL_INVALID_OPERATION", err, <<>>) >> ELSE <<>>)
         \o ExpectedPollLog(Tail(queue))

CheckStep == checks' = checks + 1 /\ ~crashed'

\* C13: whenever the debug extension is absent or the debug logger failed to
\* initialize, checkForGLerrors drains the error queue, logging every code
\* with its number and the explanation of 1280, 1281 and 1282 only.
C13_PollingWithoutDebugMessages ==
    [][(CheckStep /\ (mOpenGLDebugLogger = NULL \/ ~loggerStarted))
          => (glErrors' = <<>> /\ callLog' = ExpectedPollLog(glErrors))]_vars

BodyOps == {"AddLife", "UpdateTransform", "draw", "swapBuffers"}

FrameBody == SelectSeq(callLog, LAMBDA c : c.op \in BodyOps)

RainCount == IF ActivateRain THEN Len(mRainDrops) ELSE 0

SceneCount == Cardinality(DOMAIN mMap)

\* C14: in every rendered frame, when rain is active each transient object
\* gets AddLife, UpdateTransform, draw in spawn order; then each scene object
\* gets UpdateTransform immediately followed by its own draw, once; swapBuffers
\* is issued once, last.  When rain is inactive no transient object is touched.
C14_FrameCallOrder ==
    (RenderRan /\ ~crashed) =>
        /\ Len(FrameBody) = 3 * RainCount + 2 * SceneCount + 1
        /\ \A i \in 1..RainCount :
              /\ FrameBody[3 * i - 2] = Call("AddLife", "rain", mRainDrops[i], <<>>)
              /\ FrameBody[3 * i - 1] = Call("UpdateTransform", "rain", mRainDrops[i], <<>>)
              /\ FrameBody[3 * i] = Call("draw", "rain", mRainDrops[i], <<>>)
        /\ \A j \in 1..SceneCount :
              LET u == FrameBody[3 * RainCount + 2 * j - 1]
                  d == FrameBody[3 * RainCount + 2 * j]
              IN /\ u.op = "UpdateTransform" /\ d.op = "draw"
                 /\ u.name \in DOMAIN mMap /\ u.obj = mMap[u.name]
                 /\ d.name = u.name /\ d.obj = u.obj
                 /\ \A l \in 1..SceneCount :
                       l # j => FrameBody[3 * RainCount + 2 * l].name # d.name
        /\ callLog[Len(callLog)].op = "swapBuffers"
        /\ FrameBody[Len(FrameBody)].op = "swapBuffers"

C14_Witness ==
    /\ RenderRan /\ ~crashed /\ mInitialized /\ ActivateRain
    /\ HasCallNamed("AddLife", "rain")
    /\ callLog[Len(callLog)].op = "swapBuffers"

CallCount(op, name) ==
    Cardinality({i \in 1..Len(callLog) : callLog[i].op = op /\ callLog[i].name = name})

\* C15: in every rendered frame every registered shader is activated once and
\* receives the view and the projection matrix before any object is drawn;
\* the camera position is pushed to the lit shader only, and the pushed vector
\* is the camera eye position (x, y, z).
C15_ShaderUniforms ==
    (RenderRan /\ ~crashed) =>
        /\ \A k \in DOMAIN mShaders :
              /\ CallCount("use", k) = 1
              /\ CallCount("vMatrix", k) = 1
              /\ CallCount("pMatrix", k) = 1
        /\ \A i, j \in 1..Len(callLog) :
              (callLog[i].op \in {"use", "vMatrix", "pMatrix", "cameraPosition"}
               /\ callLog[j].op = "draw") => i < j
        /\ \A i \in 1..Len(callLog) :
              callLog[i].op = "cameraPosition" =>
                  /\ callLog[i].name = "LightShader"
                  /\ callLog[i].vec = <<CamPos.x, CamPos.y, CamPos.z>>
        /\ ("LightShader" \in DOMAIN mShaders => CallCount("cameraPosition", "LightShader") = 1)

\* C16: when init() wires the ball, "Surface" is in the registry with a
\* non-null object; the ball's surface link is that registry object, the link
\* is made before init() or UpdateTransform() is called on any scene object,
\* and it stays the registry's surface object afterwards.
C16_BallWiredToRegistrySurface ==
    /\ (lastOp = "exposeEvent" /\ HasCallNamed("SetSurface", "Ball")) =>
          /\ \A i \in 1..Len(callLog) :
                callLog[i].op = "SetSurface" =>
                    /\ callLog[i].obj = mMap["Surface"]
                    /\ \A j \in 1..Len(callLog) :
                          callLog[j].op \in {"init", "UpdateTransform"} => i < j
          /\ mBall # NullObj
    /\ mBall # NullObj =>
          /\ "Surface" \in DOMAIN mMap
          /\ mMap["Surface"] # NullObj
          /\ heap[mMap["Surface"]].kind = "SurfaceMesh"
          /\ heap[mBall].kind = "RollingBall"
          /\ heap[mBall].surface = mMap["Surface"]
          /\ mMap["Ball"] = mBall

C16_Witness ==
    /\ lastOp = "exposeEvent" /\ HasCallNamed("SetSurface", "Ball")
    /\ HasCallNamed("init", "Surface")
    /\ mBall # NullObj /\ heap[mBall].surface = mMap["Surface"]

KeyStep(k) == keyCount'[k] = keyCount[k] + 1

MovementKeys == {"W", "S", "A", "D", "Q", "E"}

Moved == {c \in {"x", "y", "z"} : CamPos'[c] # CamPos[c]}

\* C17: each key-down event has only its own effect: a movement key changes
\* exactly one coordinate of CamPos, by exactly 1, and leaves ActivateRain
\* and mRainDrops alone; the toggle-rain key leaves CamPos alone; Escape and
\* unmapped keys leave CamPos, ActivateRain and mRainDrops alone.
C17_KeyFiresOwnEffect ==
    [][\A k \in Keys : KeyStep(k) =>
          /\ k \in MovementKeys =>
                /\ Cardinality(Moved) = 1
                /\ \A c \in Moved : CamPos'[c] - CamPos[c] \in {-1, 1}
                /\ UNCHANGED <<ActivateRain, mRainDrops>>
          /\ k = "I" => UNCHANGED CamPos
          /\ k \in {"Escape", "Other"} => UNCHANGED <<CamPos, ActivateRain, mRainDrops>>]_vars

C17_Witness ==
    /\ keyCount["A"] = 1 /\ keyCount["I"] = 1
    /\ CamPos = [x |-> -1, y |-> 0, z |-> 0]
    /\ ActivateRain /\ Len(mRainDrops) = mRainAmount

PhysicsBall(obj) ==
    obj # NullObj /\ heap[obj].kind = "RollingBall" /\ heap[obj].physics

\* C18: every physics-enabled ball whose transform render() recomputes has
\* its surface link set, to the registry's surface object.
C18_PhysicsBallsHaveSurface ==
    (RenderRan /\ ~crashed /\ mInitialized) =>
        \A i \in 1..Len(callLog) :
            (callLog[i].op = "UpdateTransform" /\ PhysicsBall(callLog[i].obj)) =>
                /\ heap[callLog[i].obj].surface # NullObj
                /\ "Surface" \in DOMAIN mMap
                /\ heap[callLog[i].obj].surface = mMap["Surface"]

\* C19: timeout is connected to render() at most once, whatever the sequence
\* of exposeEvents, so a timeout runs render() exactly once.
C19_SingleTimerConnection == connections <= 1 /\ pending <= 1

====
